---- MODULE Spec2Model ----
(***************************************************************************)
(* Behavioural model of the effect types of fp-ts: the TaskOption and      *)
(* IOOption array traversals, the OptionT-derived flatMap / ap, and the    *)
(* evaluation order of the deferred computations they start.               *)
(*                                                                         *)
(* A Task is a thunk returning a promise.  A primitive task is "invoked"   *)
(* when the thunk is called (it becomes pending), and "resolves" later,    *)
(* when the host event loop fires it; its side effect is logged when it    *)
(* resolves.  An IO is a synchronous thunk: it runs inside the step that   *)
(* calls it.                                                               *)
(***************************************************************************)
EXTENDS Integers, Sequences, FiniteSets, TLC

\* ------------------------------------------------------------------ bounds
MaxLen == 3
MaxVal == 2
\* delay of the test harness's slow task, in ms
DelayMs == 100

Values == 1..MaxVal
Delays == {0, DelayMs}
Progs == {"seq", "par", "io", "flatMap", "ap", "chain", "ioAp", "fromRejectable", "liftRejectable"}
\* liftRejectable(g)(...a) is fromRejectable(() => g(...a))
RejectableProgs == {"fromRejectable", "liftRejectable"}
\* how the promise f() of fromRejectable ends; "throws": f throws instead of
\* returning a promise
Promises == {"fulfils", "rejects", "throws"}
TraversalProgs == {"seq", "par", "io"}

VARIABLES
    pure,     \* the inputs and results of the pure operations under check
    heap,     \* the arrays allocated by the runs, by reference (repeated runs)
    prog,     \* which combinator built the task under run
    promise,  \* fromRejectable: how the promise f() ends ("none" elsewhere)
    as,       \* the input array (for flatMap / ap: the two operands)
    noneAt,   \* the indices (0-based) at which f yields None
    dly,      \* the delay of the task f(i, as[i]), per position
    pc,       \* "created": the task is built, not run; "running"; "done"
    calls,    \* the indices at which f was invoked, in invocation order
    st,       \* per position: "idle", "pending" (in flight), "resolved"
    due,      \* per position: the time at which the pending task fires
    out,      \* per position: the Option the started task resolves to
    now,      \* the event loop's clock
    log,      \* the side effects executed so far, in order
    acc,      \* sequential traversal: the accumulator promise's value
    pos,      \* sequential traversal: the index being processed
    phase,    \* sequential traversal / flatMap: what runs next
    result    \* the value the run resolved to, or Pending

loopVars == <<heap, prog, promise, as, noneAt, dly, pc, calls, st, due, out, now, log, acc, pos, phase, result>>
vars == <<pure, heap, prog, promise, as, noneAt, dly, pc, calls, st, due, out, now, log, acc, pos, phase, result>>

\* ------------------------------------------------------------------ Option
none == [tag |-> "None"]
some(v) == [tag |-> "Some", value |-> v]
isNone(o) == o.tag = "None"
isSome(o) == o.tag = "Some"
Pending == [tag |-> "Pending"]


\* undefined: a value that is no element of any input array
undefined == MaxVal + 1

\* internal helpers
isNonEmpty(xs) == Len(xs) > 0
head(xs) == IF xs = <<>> THEN undefined ELSE xs[1]
tail(xs) == SubSeq(xs, 2, Len(xs))
singleton(a) == <<a>>

\* faulty variant: the accumulator starts empty, without the first value
mapSingletonEmpty(o) == IF isNone(o) THEN none ELSE some(<<>>)

\* option.map(_.singleton)
mapSingleton(o) == IF isNone(o) THEN none ELSE some(singleton(o.value))
Zip_ == <<>>

\* ---------------------------------------------------------------- inputs
\* The function f handed to a traversal: f(i, a) is a task that resolves,
\* after dly, to None at the indices of noneAt and to Some of a value that
\* records both arguments elsewhere.
fValue(i, a) == <<i, a>>
f(i, a) == IF i \in noneAt THEN none ELSE some(fValue(i, a))

\* positions of the input array, 0-based as in the source
Indices == 0..(Len(as) - 1)

\* faulty variant: building a traversal or a rejectable task already calls
\* the function once
callsOnBuildEager(p) ==
    IF p \in {"seq", "par"} \cup RejectableProgs THEN <<0>> ELSE <<>>

\* Building a task calls nothing: f(as), fromRejectable(f) and
\* liftRejectable(g)(...a) each return a thunk that closes over its arguments.
callsOnBuild(p) == <<>>

Init ==
    \E p \in Progs, n \in 0..MaxLen, pr \in Promises \cup {"none"} :
      \E xs \in [1..n -> Values], na \in SUBSET (0..(n - 1)), d \in [0..(n - 1) -> Delays] :
        /\ p \in {"flatMap", "ap", "chain", "ioAp"} => n = 2
        /\ p \in {"io", "chain", "ioAp"} => \A i \in 0..(n - 1) : d[i] = 0
        /\ p \in RejectableProgs => n = 1 /\ na = {} /\ pr \in Promises
        /\ p \notin RejectableProgs => pr = "none"
        /\ pure = [law |-> "none"]
        /\ heap = <<>>
        /\ prog = p
        /\ promise = pr
        /\ as = xs
        /\ noneAt = na
        /\ dly = d
        /\ pc = "created"
        /\ calls = callsOnBuild(p)
        /\ st = [i \in 0..(n - 1) |-> "idle"]
        /\ due = [i \in 0..(n - 1) |-> 0]
        /\ out = [i \in 0..(n - 1) |-> Pending]
        /\ now = 0
        /\ log = <<>>
        /\ acc = Pending
        /\ pos = 0
        /\ phase = "none"
        /\ result = Pending

\* ------------------------------------------------- the host event loop
\* Calling f(i, a)() for the element at position p: f is invoked with index
\* i, and the task it returns is started.
invoke(p, i, a) ==
    /\ calls' = Append(calls, i)
    /\ st' = [st EXCEPT ![p] = "pending"]
    /\ due' = [due EXCEPT ![p] = now + dly[p]]
    /\ out' = [out EXCEPT ![p] = f(i, a)]

\* A pending task fires: the earliest one first; its side effect happens.
TaskResolve(p) ==
    /\ pc = "running"
    /\ st[p] = "pending"
    /\ \A q \in Indices : st[q] = "pending" => due[p] <= due[q]
    /\ st' = [st EXCEPT ![p] = "resolved"]
    /\ log' = Append(log, p)
    /\ now' = due[p]
    /\ UNCHANGED <<pure, heap, prog, promise, as, noneAt, dly, pc, calls, due, out, acc, pos, phase, result>>

\* ------------------------------------------ TaskOption, sequential traversal
\* faulty variant: the empty traversal is the zero of the type, none, not of([])
ZipAsNone == none

\* Zip = of(_.Zip): the task every traversal returns for an empty array
Zip == some(Zip_)

\* traverseReadonlyArrayWithIndex: g(as) for a non-empty array, else Zip
traverseReadonlyArrayWithIndex(xs) == IF isNonEmpty(xs) THEN "g" ELSE "Zip"

\* faulty variant: the reducer passes its own index i instead of i + 1
reduceIndexOffByOne(i) == i

\* the index the reducer passes to f for the i-th element of tail(as)
reduceIndex(i) == i + 1

\* the reducer's test on the accumulated Option: whether it goes on to f
reduceContinues(obs) == ~isNone(obs)

\* faulty variant: a None element is skipped instead of ending the traversal
reduceElementSkipsNone(obs, ob) ==
    IF isNone(ob) THEN obs ELSE some(Append(obs.value, ob.value))

\* the callback on the element's Option ob, given the accumulated obs
reduceElement(obs, ob) ==
    IF isNone(ob) THEN ob ELSE some(Append(obs.value, ob.value))

\* The promise at position pos of the chain settles with value v: the last
\* one is the promise the run returned.
chainSettles(v) ==
    /\ acc' = v
    /\ IF pos = Len(as) - 1
         THEN /\ result' = v
              /\ pc' = "done"
              /\ phase' = "none"
         ELSE /\ phase' = "outer"
              /\ UNCHANGED <<result, pc>>

\* Running the task for an empty array: Zip, already resolved.
RunZip ==
    /\ prog \in {"seq", "par"}
    /\ pc = "created"
    /\ traverseReadonlyArrayWithIndex(as) = "Zip"
    /\ result' = Zip
    /\ pc' = "done"
    /\ UNCHANGED <<pure, heap, prog, promise, as, noneAt, dly, calls, st, due, out, now, log, acc, pos, phase>>

\* Running the task: reduce's initial value f(0, head(as))() is evaluated,
\* and the chain of then-callbacks is built.
RunSeq ==
    /\ prog = "seq"
    /\ pc = "created"
    /\ traverseReadonlyArrayWithIndex(as) = "g"
    /\ invoke(0, 0, head(as))
    /\ pc' = "running"
    /\ pos' = 0
    /\ phase' = "task"
    /\ UNCHANGED <<pure, heap, prog, promise, as, noneAt, dly, now, log, acc, result>>

\* .then(option.map(_.singleton)) on the first task
SeqHead ==
    /\ prog = "seq"
    /\ pc = "running"
    /\ phase = "task"
    /\ pos = 0
    /\ st[0] = "resolved"
    /\ chainSettles(mapSingleton(out[0]))
    /\ UNCHANGED <<pure, heap, prog, promise, as, noneAt, dly, calls, st, due, out, now, log, pos>>

\* acc.then((obs) => isNone(obs) ? acc : f(i + 1, a)().then(...))
SeqOuter ==
    /\ prog = "seq"
    /\ pc = "running"
    /\ phase = "outer"
    /\ pos < Len(as) - 1
    /\ pos' = pos + 1
    /\ IF reduceContinues(acc)
         THEN /\ invoke(pos + 1, reduceIndex(pos), tail(as)[pos + 1])
              /\ phase' = "task"
              /\ UNCHANGED <<acc, result, pc>>
         ELSE /\ IF pos + 1 = Len(as) - 1
                   THEN /\ result' = acc
                        /\ pc' = "done"
                        /\ phase' = "none"
                   ELSE UNCHANGED <<result, pc, phase>>
              /\ UNCHANGED <<acc, calls, st, due, out>>
    /\ UNCHANGED <<pure, heap, prog, promise, as, noneAt, dly, now, log>>

\* .then((ob) => { if (isNone(ob)) return ob; obs.value.push(ob.value); return obs })
SeqInner ==
    /\ prog = "seq"
    /\ pc = "running"
    /\ phase = "task"
    /\ pos > 0
    /\ st[pos] = "resolved"
    /\ chainSettles(reduceElement(acc, out[pos]))
    /\ UNCHANGED <<pure, heap, prog, promise, as, noneAt, dly, calls, st, due, out, now, log, pos>>

\* -------------------------------------------- TaskOption, parallel traversal
\* option.traverseReadonlyNonEmptyArrayWithIndex(SK): the Options of an array,
\* folded left to right: None at the first None, else Some of the values.
RECURSIVE optionFold(_, _)
optionFold(os, obs) ==
    IF os = <<>> THEN obs
    ELSE IF isNone(obs) THEN obs
    ELSE IF isNone(head(os)) THEN none
    ELSE optionFold(tail(os), some(Append(obs.value, head(os).value)))

optionTraverse(os) == optionFold(os, some(<<>>))

\* task.traverseReadonlyNonEmptyArrayWithIndexPar(f)(as): every f(i, a)() is
\* called when the task is run; the positions started, in order.
taskTraversePar(xs) == [k \in 1..Len(xs) |-> k - 1]

\* the Options of the resolved tasks, in original index order
collected == [k \in 1..Len(as) |-> out[k - 1]]

\* faulty variant: the sequential Task traversal is used, which starts only f(0, a0)
parStartsFirstOnly(xs) == <<0>>

\* traverseReadonlyNonEmptyArrayWithIndexPar: which positions the run starts
parStarts(xs) == taskTraversePar(xs)

\* faulty variant: the Options are collected in the order the tasks completed
parResultByCompletion(os) == optionTraverse([k \in 1..Len(log) |-> out[log[k]]])

\* traverseReadonlyNonEmptyArrayWithIndexPar: task.map(option.traverse...(SK))
\* applied to the array the parallel Task traversal resolved to
parResult(os) == optionTraverse(os)

\* faulty variant: the run stops waiting at the first None in index order
settledUpToNone ==
    \/ \A q \in Indices : st[q] = "resolved"
    \/ \E q \in Indices :
         /\ \A j \in 0..q : st[j] = "resolved"
         /\ isNone(out[q])

\* the parallel Task traversal resolves once every branch task has resolved
allSettled == \A q \in Indices : st[q] = "resolved"

\* Running the task: all f(i, a)() are called, in index order.
RunPar ==
    /\ prog = "par"
    /\ pc = "created"
    /\ traverseReadonlyArrayWithIndex(as) = "g"
    /\ LET started == parStarts(as)
           S == {started[k] : k \in 1..Len(started)}
       IN  /\ calls' = calls \o started
           /\ st' = [q \in Indices |-> IF q \in S THEN "pending" ELSE st[q]]
           /\ due' = [q \in Indices |-> IF q \in S THEN now + dly[q] ELSE due[q]]
           /\ out' = [q \in Indices |-> IF q \in S THEN f(q, as[q + 1]) ELSE out[q]]
    /\ pc' = "running"
    /\ phase' = "all"
    /\ UNCHANGED <<pure, heap, prog, promise, as, noneAt, dly, now, log, acc, pos, result>>

\* Every task has resolved: the array of Options is traversed.
ParCollect ==
    /\ prog = "par"
    /\ pc = "running"
    /\ phase = "all"
    /\ allSettled
    /\ result' = parResult(collected)
    /\ pc' = "done"
    /\ phase' = "none"
    /\ UNCHANGED <<pure, heap, prog, promise, as, noneAt, dly, calls, st, due, out, now, log, acc, pos>>

\* The runs of the two TaskOption traversals alone, under the scheduling of
\* the host: a task that is pending resolves, a callback whose promise has
\* settled is called, a task that was built is run.
TraversalInit == Init /\ prog \in {"seq", "par"}

TraversalNext ==
    \/ \E p \in Indices : TaskResolve(p)
    \/ RunZip
    \/ RunSeq
    \/ SeqHead
    \/ SeqOuter
    \/ SeqInner
    \/ RunPar
    \/ ParCollect

SpecFair == TraversalInit /\ [][TraversalNext]_vars /\ WF_vars(TraversalNext)

\* ------------------------------------------------------ IOOption traversal
\* ApT = of(_.emptyReadonlyArray)
ApT == some(<<>>)

\* I.traverseReadonlyNonEmptyArrayWithIndex(f)(as): IO never fails, so every
\* f(i, a)() runs, in index order; the positions run.
ioTraverse(xs) == [k \in 1..Len(xs) |-> k - 1]

\* IOOption.traverseReadonlyNonEmptyArrayWithIndex: which positions are run
IOOption_runs(xs) == ioTraverse(xs)

\* IOOption.traverseReadonlyNonEmptyArrayWithIndex: I.map(O.traverse...(SK))
IOOption_result(os) == optionTraverse(os)

\* IOOption.traverseReadonlyArrayWithIndex
IOOption_traverseReadonlyArrayWithIndex(xs) == IF isNonEmpty(xs) THEN "g" ELSE "ApT"

\* Running the IO: one synchronous call.
RunIO ==
    /\ prog = "io"
    /\ pc = "created"
    /\ IF IOOption_traverseReadonlyArrayWithIndex(as) = "g"
         THEN LET ran == IOOption_runs(as)
                  S == {ran[k] : k \in 1..Len(ran)}
                  outs == [q \in Indices |-> IF q \in S THEN f(q, as[q + 1]) ELSE out[q]]
              IN  /\ calls' = calls \o ran
                  /\ log' = log \o ran
                  /\ st' = [q \in Indices |-> IF q \in S THEN "resolved" ELSE st[q]]
                  /\ out' = outs
                  /\ result' = IOOption_result([k \in 1..Len(ran) |-> outs[ran[k]]])
         ELSE /\ result' = ApT
              /\ UNCHANGED <<calls, log, st, out>>
    /\ pc' = "done"
    /\ UNCHANGED <<pure, heap, prog, promise, as, noneAt, dly, due, now, acc, pos, phase>>

\* ------------------------------------------------- flatMap, ap and chain
\* The two operands of a composition: a at position 0 and b at position 1,
\* tasks (for chain: IOs) that log their position and yield an Option.
operand(p) == IF p \in noneAt THEN none ELSE some(as[p + 1])

\* reading .value of an Option: undefined on None
valueOf(o) == IF isNone(o) THEN undefined ELSE o.value

\* the curried tuple constructor of the test harness, applied to a then to b
tuple(a) == [tuple |-> a]
applyTuple(fv, b) == <<fv.tuple, b>>

\* map(tuple) on an Option
mapTuple(o) == IF isNone(o) THEN none ELSE some(tuple(o.value))

\* The Option the second computation yields.  For flatMap and chain it is
\* f(a), which depends on the value a it is handed; for ap it is map(f)(b).
second(v) ==
    IF prog = "ap"
      THEN IF isNone(operand(1)) THEN none ELSE some(applyTuple(v, operand(1).value))
      ELSE IF isNone(operand(1)) THEN none ELSE some(<<v, operand(1).value>>)

\* the Option the first computation yields: a, or for ap map(tuple)(a)
first == IF prog = "ap" THEN mapTuple(operand(0)) ELSE operand(0)

\* Task.flatMap(f)(ma) = () => ma().then((a) => f(a)()): only ma is started
\* when the task is run.
taskFlatMap == <<0>>

\* OptionT.flatMap: F.flatMap((oa) => isNone(oa) ? F.of(None) : f(oa.value))
optionT_flatMap(oa) == IF isNone(oa) THEN "ofNone" ELSE "f"

\* faulty variant: the second computation is started together with the first
flatMapStartsBoth == <<0, 1>>

\* TaskOption.flatMap = optionT.flatMap(task.Monad)
flatMapStarts == taskFlatMap
flatMapCallback(oa) == optionT_flatMap(oa)

\* Flattenable.ap: ap(fa)(self) = flatMap((f) => map(f)(fa))(self)
flattenable_ap == flatMapStarts

\* faulty variant: ap starts both operands when run, as a parallel Apply does
apPar == <<0, 1>>

\* TaskOption.ap = flattenable.ap(Flattenable)
ap == flattenable_ap

\* faulty variant: the test on the inner Option is inverted
chainInverted(oa) == IF isNone(oa) THEN "f" ELSE "ofNone"

\* IOOption.chain = OT.chain(I.Monad)
chain(oa) == optionT_flatMap(oa)

\* Running the composed task: the computations it starts at once.
RunComp ==
    /\ prog \in {"flatMap", "ap"}
    /\ pc = "created"
    /\ LET started == IF prog = "ap" THEN ap ELSE flatMapStarts
           S == {started[k] : k \in 1..Len(started)}
       IN  /\ st' = [q \in Indices |-> IF q \in S THEN "pending" ELSE st[q]]
           /\ due' = [q \in Indices |-> IF q \in S THEN now + dly[q] ELSE due[q]]
           /\ out' = [q \in Indices |-> IF q \in S THEN (IF q = 0 THEN first ELSE operand(q)) ELSE out[q]]
    /\ pc' = "running"
    /\ phase' = "first"
    /\ UNCHANGED <<pure, heap, prog, promise, as, noneAt, dly, calls, now, log, acc, pos, result>>

\* The callback on the first computation's Option: of(None), or f is
\* invoked and the task it returns is started.
CompCont ==
    /\ prog \in {"flatMap", "ap"}
    /\ pc = "running"
    /\ phase = "first"
    /\ st[0] = "resolved"
    /\ IF flatMapCallback(out[0]) = "ofNone"
         THEN /\ result' = none
              /\ pc' = "done"
              /\ phase' = "none"
              /\ UNCHANGED <<calls, st, due, out>>
         ELSE /\ calls' = Append(calls, valueOf(out[0]))
              /\ st' = [st EXCEPT ![1] = "pending"]
              /\ due' = [due EXCEPT ![1] = now + dly[1]]
              /\ out' = [out EXCEPT ![1] = second(valueOf(out[0]))]
              /\ phase' = "second"
              /\ UNCHANGED <<result, pc>>
    /\ UNCHANGED <<pure, heap, prog, promise, as, noneAt, dly, now, log, acc, pos>>

\* The second computation has resolved: its Option is the result.
CompDone ==
    /\ prog \in {"flatMap", "ap"}
    /\ pc = "running"
    /\ phase = "second"
    /\ st[1] = "resolved"
    /\ result' = out[1]
    /\ pc' = "done"
    /\ phase' = "none"
    /\ UNCHANGED <<pure, heap, prog, promise, as, noneAt, dly, calls, st, due, out, now, log, acc, pos>>

\* Running IOOption.chain(f)(ma): one synchronous call.
RunChain ==
    /\ prog = "chain"
    /\ pc = "created"
    /\ IF chain(first) = "ofNone"
         THEN /\ log' = Append(log, 0)
              /\ st' = [st EXCEPT ![0] = "resolved"]
              /\ out' = [out EXCEPT ![0] = first]
              /\ result' = none
              /\ UNCHANGED calls
         ELSE /\ log' = log \o <<0, 1>>
              /\ calls' = Append(calls, valueOf(first))
              /\ st' = [q \in Indices |-> "resolved"]
              /\ out' = [q \in Indices |-> IF q = 0 THEN first ELSE second(valueOf(first))]
              /\ result' = second(valueOf(first))
    /\ pc' = "done"
    /\ UNCHANGED <<pure, heap, prog, promise, as, noneAt, dly, due, now, acc, pos, phase>>

\* ---------------------------------------------------------- IOOption.ap
\* IO's Apply: ap(fa)(fab) = () => fab()(fa()): running it runs fab, then
\* fa, whatever they return.  OptionT.ap lifts Option's ap through it.
io_ap == <<0, 1>>

\* Option.ap: None when either side is None
option_ap(ofab, ofa) ==
    IF isNone(ofab) THEN none
    ELSE IF isNone(ofa) THEN none
    ELSE some(applyTuple(ofab.value, ofa.value))

\* faulty variant: ap derived from chain, which skips fa when fab is None
IOOption_apViaChain(ofab) == IF isNone(ofab) THEN <<0>> ELSE <<0, 1>>

\* IOOption.ap = OT.ap(I.Apply): the IOs that run, given fab's Option
IOOption_ap(ofab) == io_ap

\* Running pipe(a, map(tuple), ap(b)): one synchronous call.
RunIOAp ==
    /\ prog = "ioAp"
    /\ pc = "created"
    /\ LET ofab == mapTuple(operand(0))
           ran == IOOption_ap(ofab)
           S == {ran[k] : k \in 1..Len(ran)}
       IN  /\ log' = log \o ran
           /\ st' = [q \in Indices |-> IF q \in S THEN "resolved" ELSE st[q]]
           /\ out' = [q \in Indices |-> IF q \in S THEN (IF q = 0 THEN ofab ELSE operand(q)) ELSE out[q]]
           /\ result' = option_ap(ofab, operand(1))
    /\ pc' = "done"
    /\ UNCHANGED <<pure, heap, prog, promise, as, noneAt, dly, calls, due, now, acc, pos, phase>>

\* ------------------------------------------------ TaskOption.fromRejectable
\* a promise that has rejected with a reason
rejected(reason) == [tag |-> "Rejected", reason |-> reason]

\* f().then(_.some)
onFulfilled(v) == some(v)

\* faulty variant: the catch clause rethrows
onRejectedRethrows(reason) == rejected(reason)

\* catch (reason) { return _.none }
onRejected(reason) == none

\* Running fromRejectable(f): f is called inside the try block.  When it
\* throws, the catch clause runs at once; otherwise the run awaits the
\* promise it returned.  The input array holds, at position 0, the value the
\* promise fulfils with, or else the reason it rejects (or f throws) with.
RunRejectable ==
    /\ prog \in RejectableProgs
    /\ pc = "created"
    /\ calls' = Append(calls, 0)
    /\ IF promise = "throws"
         THEN /\ result' = onRejected(as[1])
              /\ pc' = "done"
              /\ UNCHANGED <<st, due, out>>
         ELSE /\ st' = [st EXCEPT ![0] = "pending"]
              /\ due' = [due EXCEPT ![0] = now + dly[0]]
              /\ out' = [out EXCEPT ![0] = IF promise = "fulfils" THEN onFulfilled(as[1]) ELSE rejected(as[1])]
              /\ pc' = "running"
              /\ UNCHANGED result
    /\ UNCHANGED <<pure, heap, prog, promise, as, noneAt, dly, now, log, acc, pos, phase>>

\* The awaited promise has settled: the value of the try block, or of the
\* catch clause, resolves the task.
RejectableSettle ==
    /\ prog \in RejectableProgs
    /\ pc = "running"
    /\ st[0] = "resolved"
    /\ result' = IF out[0].tag = "Rejected" THEN onRejected(out[0].reason) ELSE out[0]
    /\ pc' = "done"
    /\ UNCHANGED <<pure, heap, prog, promise, as, noneAt, dly, calls, st, due, out, now, log, acc, pos, phase>>


\* ---------------------------- TaskOption, sequential traversal run repeatedly
\* The task g(as) of a non-empty array is run twice, the second run starting
\* at any moment of the first.  Each run has its own promise chain, so the
\* per-run variables are functions of the run here; the arrays a run
\* allocates live in heap and are referred to by their position in it.  The
\* tasks of f carry no delay: they resolve in any order.
Runs == {1, 2}

\* faulty variant: one accumulator array, allocated once, serves every run
allocShared(h, a) == IF h = <<>> THEN <<singleton(a)>> ELSE [h EXCEPT ![1] = Append(@, a)]

\* _.singleton(a): a new array; its reference is the last position of the heap
allocSingleton(h, a) == Append(h, singleton(a))

\* obs.value.push(b): the array obs.value refers to is modified in place
push(h, ref, b) == [h EXCEPT ![ref] = Append(@, b)]

RerunInit ==
    \E n \in 1..MaxLen :
      \E xs \in [1..n -> Values], na \in SUBSET (0..(n - 1)) :
        /\ pure = [law |-> "none"]
        /\ heap = <<>>
        /\ prog = "rerun"
        /\ promise = "none"
        /\ as = xs
        /\ noneAt = na
        /\ dly = [i \in 0..(n - 1) |-> 0]
        /\ pc = [r \in Runs |-> "created"]
        /\ calls = [r \in Runs |-> <<>>]
        /\ st = [r \in Runs |-> [i \in 0..(n - 1) |-> "idle"]]
        /\ due = [r \in Runs |-> [i \in 0..(n - 1) |-> 0]]
        /\ out = [r \in Runs |-> [i \in 0..(n - 1) |-> Pending]]
        /\ now = 0
        /\ log = <<>>
        /\ acc = [r \in Runs |-> Pending]
        /\ pos = [r \in Runs |-> 0]
        /\ phase = [r \in Runs |-> "none"]
        /\ result = [r \in Runs |-> Pending]

\* run r calls f(i, a)() for the element at position p
rerunInvoke(r, p, i, a) ==
    /\ calls' = [calls EXCEPT ![r] = Append(@, i)]
    /\ st' = [st EXCEPT ![r][p] = "pending"]
    /\ out' = [out EXCEPT ![r][p] = f(i, a)]

\* the promise at position pos[r] of run r's chain settles with value v
rerunSettles(r, v) ==
    /\ acc' = [acc EXCEPT ![r] = v]
    /\ IF pos[r] = Len(as) - 1
         THEN /\ result' = [result EXCEPT ![r] = v]
              /\ pc' = [pc EXCEPT ![r] = "done"]
              /\ phase' = [phase EXCEPT ![r] = "none"]
         ELSE /\ phase' = [phase EXCEPT ![r] = "outer"]
              /\ UNCHANGED <<result, pc>>

\* The task is run (again): f(0, head(as))() is called.
RerunStart(r) ==
    /\ pc[r] = "created"
    /\ rerunInvoke(r, 0, 0, head(as))
    /\ pc' = [pc EXCEPT ![r] = "running"]
    /\ phase' = [phase EXCEPT ![r] = "task"]
    /\ UNCHANGED <<pure, heap, prog, promise, as, noneAt, dly, due, now, log, acc, pos, result>>

\* a pending task of run r resolves
RerunResolve(r, p) ==
    /\ st[r][p] = "pending"
    /\ st' = [st EXCEPT ![r][p] = "resolved"]
    /\ log' = Append(log, <<r, p>>)
    /\ UNCHANGED <<pure, heap, prog, promise, as, noneAt, dly, pc, calls, due, out, now, acc, pos, phase, result>>

\* .then(option.map(_.singleton)) on the first task of run r
RerunHead(r) ==
    /\ pc[r] = "running"
    /\ phase[r] = "task"
    /\ pos[r] = 0
    /\ st[r][0] = "resolved"
    /\ IF isNone(out[r][0])
         THEN /\ rerunSettles(r, none)
              /\ UNCHANGED heap
         ELSE /\ heap' = allocSingleton(heap, out[r][0].value)
              /\ rerunSettles(r, some(Len(heap')))
    /\ UNCHANGED <<pure, prog, promise, as, noneAt, dly, calls, st, due, out, now, log, pos>>

\* acc.then((obs) => isNone(obs) ? acc : f(i + 1, a)().then(...)) of run r
RerunOuter(r) ==
    /\ pc[r] = "running"
    /\ phase[r] = "outer"
    /\ pos[r] < Len(as) - 1
    /\ pos' = [pos EXCEPT ![r] = @ + 1]
    /\ IF reduceContinues(acc[r])
         THEN /\ rerunInvoke(r, pos[r] + 1, reduceIndex(pos[r]), tail(as)[pos[r] + 1])
              /\ phase' = [phase EXCEPT ![r] = "task"]
              /\ UNCHANGED <<acc, result, pc>>
         ELSE /\ IF pos[r] + 1 = Len(as) - 1
                   THEN /\ result' = [result EXCEPT ![r] = acc[r]]
                        /\ pc' = [pc EXCEPT ![r] = "done"]
                        /\ phase' = [phase EXCEPT ![r] = "none"]
                   ELSE UNCHANGED <<result, pc, phase>>
              /\ UNCHANGED <<acc, calls, st, out>>
    /\ UNCHANGED <<pure, heap, prog, promise, as, noneAt, dly, due, now, log>>

\* .then((ob) => { if (isNone(ob)) return ob; obs.value.push(ob.value); return obs })
RerunInner(r) ==
    /\ pc[r] = "running"
    /\ phase[r] = "task"
    /\ pos[r] > 0
    /\ st[r][pos[r]] = "resolved"
    /\ IF isNone(out[r][pos[r]])
         THEN /\ rerunSettles(r, out[r][pos[r]])
              /\ UNCHANGED heap
         ELSE /\ heap' = push(heap, acc[r].value, out[r][pos[r]].value)
              /\ rerunSettles(r, acc[r])
    /\ UNCHANGED <<pure, prog, promise, as, noneAt, dly, calls, st, due, out, now, log, pos>>

RerunNext ==
    \E r \in Runs :
        \/ RerunStart(r)
        \/ \E p \in Indices : RerunResolve(r, p)
        \/ RerunHead(r)
        \/ RerunOuter(r)
        \/ RerunInner(r)

SpecRerun == RerunInit /\ [][RerunNext]_vars

\* -------------------------------------------------- the Monad of TaskOption
\* A TaskOption composed with of and flatMap runs its parts one after the
\* other, so a run is determined by the effects it executes, in order, and
\* the Option it resolves to.
LawOptions == {none} \cup {some(v) : v \in Values}

\* the tasks that log the given label, or nothing, and yield an Option
LawTasks(label) == [eff : {<<>>, <<label>>}, val : LawOptions]

\* the functions a -> TaskOption handed to flatMap
Kleisli(label) ==
    {[v \in Values |-> [eff |-> e, val |-> t[v]]] :
        e \in {<<>>, <<label>>}, t \in [Values -> LawOptions]}

\* Task.of(a): resolves to a, no effect
task_of(a) == [eff |-> <<>>, val |-> a]

\* Task.flatMap(k)(ma): runs ma, then the task k(a) built from its value
task_flatMap(k, ma) ==
    LET r == k[ma.val] IN [eff |-> ma.eff \o r.eff, val |-> r.val]

\* OptionT.some(F.of)
optionT_some(a) == task_of(some(a))

\* TaskOption.of = some = optionT.some(task.Pointed)
of(a) == optionT_some(a)

\* faulty variant: flatMap behaves as tap: f's task is run, self's value is kept
flatMapAsTap(fn, self) ==
    task_flatMap([oa \in LawOptions |->
                    IF isNone(oa) THEN task_of(none)
                    ELSE [eff |-> fn[oa.value].eff, val |-> oa]], self)

\* TaskOption.flatMap(f)(self), as the run of the resulting task
flatMap(fn, self) ==
    task_flatMap([oa \in LawOptions |->
                    IF flatMapCallback(oa) = "ofNone" THEN task_of(none)
                    ELSE fn[oa.value]], self)

\* of as a function, and the composition a => flatMap(g)(f(a))
ofK == [a \in Values |-> of(a)]
composeK(gn, fn) == [a \in Values |-> flatMap(gn, fn[a])]

LawsInit ==
    \E m \in LawTasks("m"), fn \in Kleisli("f"), gn \in Kleisli("g") :
        /\ pure = [law |-> "inputs", m |-> m, f |-> fn, g |-> gn]
        /\ heap = <<>>
        /\ prog = "laws"
        /\ promise = "none"
        /\ as = <<>>
        /\ noneAt = {}
        /\ dly = <<>>
        /\ pc = "done"
        /\ calls = <<>>
        /\ st = <<>>
        /\ due = <<>>
        /\ out = <<>>
        /\ now = 0
        /\ log = <<>>
        /\ acc = Pending
        /\ pos = 0
        /\ phase = "none"
        /\ result = Pending

\* flatMap(f)(of(a)) against f(a)
LeftIdentity(a) ==
    /\ pure.law = "inputs"
    /\ pure' = [law |-> "left", m |-> pure.m, f |-> pure.f, g |-> pure.g, a |-> a,
                lhs |-> flatMap(pure.f, of(a)),
                rhs |-> pure.f[a]]
    /\ UNCHANGED loopVars

\* flatMap(of)(m) against m
RightIdentity ==
    /\ pure.law = "inputs"
    /\ pure' = [law |-> "right", m |-> pure.m, f |-> pure.f, g |-> pure.g,
                lhs |-> flatMap(ofK, pure.m),
                rhs |-> pure.m]
    /\ UNCHANGED loopVars

\* flatMap(g)(flatMap(f)(m)) against flatMap(a => flatMap(g)(f(a)))(m)
Associativity ==
    /\ pure.law = "inputs"
    /\ pure' = [law |-> "assoc", m |-> pure.m, f |-> pure.f, g |-> pure.g,
                lhs |-> flatMap(pure.g, flatMap(pure.f, pure.m)),
                rhs |-> flatMap(composeK(pure.g, pure.f), pure.m)]
    /\ UNCHANGED loopVars

LawsNext ==
    \/ \E a \in Values : LeftIdentity(a)
    \/ RightIdentity
    \/ Associativity

SpecLaws == LawsInit /\ [][LawsNext]_vars

\* ---------------------------------------------------------------------- Ord
\* An Ord<A> is its compare function, a function on pairs <<b, a>> of values
\* of A: compare[<<b, a>>] is O.compare(b)(a), the comparison of a (first)
\* against b (second).  Identity (===) of values is equality of the model's
\* values.
MaxElem == 3
MaxRaw == 2
Elems == 1..MaxElem
RawElems == 1..MaxRaw
Ordering == {-1, 0, 1}

\* the values an Ord compares
carrier(O) == {p[1] : p \in DOMAIN O}

\* the raw comparators handed to fromCompare: any function into Ordering
RawCompares == [RawElems \X RawElems -> Ordering]

\* faulty variant: no identity shortcut
fromCompareNoIdentity(compare) == compare

\* fromCompare(compare).compare(second)(first)
fromCompare(compare) ==
    [p \in DOMAIN compare |-> IF p[2] = p[1] THEN 0 ELSE compare[p]]

\* the comparison of two numbers by the host's < and >
compareNumbers(b, a) == IF a < b THEN -1 ELSE IF a > b THEN 1 ELSE 0

\* number.Ord on the values of the input arrays
number_Ord == [p \in Values \X Values |-> compareNumbers(p[1], p[2])]

\* the law-abiding Ords over Elems: the orders by a rank, ties allowed
LawfulOrds ==
    {[p \in Elems \X Elems |-> compareNumbers(r[p[1]], r[p[2]])] : r \in [Elems -> Elems]}

\* the host's < on booleans: false < true
booleanLess(x, y) == ~x /\ y

\* faulty variant: the Equal branch is missing
boolean_OrdNoEqual ==
    [p \in BOOLEAN \X BOOLEAN |-> IF booleanLess(p[2], p[1]) THEN -1 ELSE 1]

\* boolean.Ord
boolean_Ord ==
    [p \in BOOLEAN \X BOOLEAN |->
        IF booleanLess(p[2], p[1]) THEN -1 ELSE IF booleanLess(p[1], p[2]) THEN 1 ELSE 0]

\* trivial: compare: () => () => 0
trivial == [p \in (Elems \cup Values) \X (Elems \cup Values) |-> 0]

\* faulty variant: the arguments are not swapped
reverseSame(O) == fromCompare([p \in DOMAIN O |-> O[p]])

\* reverse(O): O.compare(first)(second)
reverse(O) == fromCompare([p \in DOMAIN O |-> O[<<p[2], p[1]>>]])

\* faulty variant: f is applied to the second value only
contramapSecondOnly(fn, fa) ==
    fromCompare([p \in (DOMAIN fn) \X (DOMAIN fn) |-> fa[<<fn[p[1]], p[2]>>]])

\* contramap(f)(fa): fa.compare(f(second))(f(first))
contramap(fn, fa) ==
    fromCompare([p \in (DOMAIN fn) \X (DOMAIN fn) |-> fa[<<fn[p[1]], fn[p[2]]>>]])

\* faulty variant: the second Ord is asked first
getSemigroup_combineSwapped(o2, o1) ==
    fromCompare([p \in DOMAIN o1 |-> LET ox == o2[p] IN IF ox # 0 THEN ox ELSE o1[p]])

\* getSemigroup().combine(second)(first), o2 being second and o1 first
getSemigroup_combine(o2, o1) ==
    fromCompare([p \in DOMAIN o1 |-> LET ox == o1[p] IN IF ox # 0 THEN ox ELSE o2[p]])

\* faulty variant: an empty that orders distinct values
getMonoid_emptyLess == fromCompare([p \in Elems \X Elems |-> -1])

\* getMonoid().empty = fromCompare(() => () => 0)
getMonoid_empty == fromCompare([p \in Elems \X Elems |-> 0])

\* the tuples a tuple of Ords compares
tupleCarrier(ords) ==
    {t \in [1..Len(ords) -> UNION {carrier(ords[i]) : i \in 1..Len(ords)}] :
        \A i \in 1..Len(ords) : t[i] \in carrier(ords[i])}

\* the outcome of a comparison that throws, a value that is no Ordering:
\* ords[i] is undefined and its compare is read
TypeError == 2

\* faulty variant: only the last component is compared
tupleLoopLastOnly(ords, b, a, i) ==
    IF ords = <<>> THEN TypeError ELSE ords[Len(ords)][<<b[Len(ords)], a[Len(ords)]>>]

\* the loop of tuple: i is the 0-based index of the source
RECURSIVE tupleLoop(_, _, _, _)
tupleLoop(ords, b, a, i) ==
    IF i < Len(ords) - 1
      THEN LET r == ords[i + 1][<<b[i + 1], a[i + 1]>>]
           IN  IF r # 0 THEN r ELSE tupleLoop(ords, b, a, i + 1)
      ELSE IF i + 1 \in DOMAIN ords
             THEN ords[i + 1][<<b[i + 1], a[i + 1]>>]
             ELSE TypeError

\* tuple(...ords).compare(b)(a) on two arrays; same: b and a are one and the
\* same array (b === a), which two arrays of equal contents need not be
tupleCompare(ords, b, a, same) == IF same THEN 0 ELSE tupleLoop(ords, b, a, 0)

\* tuple(...ords) as an Ord on tuple values, equal tuples being identical
Ord_tuple(ords) ==
    [p \in tupleCarrier(ords) \X tupleCarrier(ords) |-> tupleCompare(ords, p[1], p[2], p[1] = p[2])]

\* the Ords handed to tuple: number.Ord, its reverse, and trivial
BaseOrds == {number_Ord, reverse(number_Ord), [p \in Values \X Values |-> trivial[p]]}

\* faulty variant: lt also accepts Equal
ltOrEqual(O, b, a) == O[<<b, a>>] < 1

\* equals, lt, gt, leq, geq: O the Ord, b the second value, a the first (self)
equals(O, b, a) == a = b \/ O[<<b, a>>] = 0
lt(O, b, a) == O[<<b, a>>] = -1
gt(O, b, a) == O[<<b, a>>] = 1
leq(O, b, a) == O[<<b, a>>] # 1
geq(O, b, a) == O[<<b, a>>] # -1

\* the numbers of the documented examples, and number.Ord on them
MaxNum == 6
Nums == 1..MaxNum
N_Ord == [p \in Nums \X Nums |-> compareNumbers(p[1], p[2])]

\* faulty variant: on a tie the second argument is returned
minStrict(O, b, a) == IF a = b \/ O[<<b, a>>] < 0 THEN a ELSE b

\* min(O)(second)(self) and max(O)(second)(self), b being second and a self
min(O, b, a) == IF a = b \/ O[<<b, a>>] < 1 THEN a ELSE b
max(O, b, a) == IF a = b \/ O[<<b, a>>] > -1 THEN a ELSE b

\* faulty variant: the bounds are handed to the wrong stage
clampSwapped(O, low, hi, a) == max(O, hi, min(O, low, a))

\* clamp(O)(low, hi) = flow(minO(hi), maxO(low))
clamp(O, low, hi, a) == max(O, low, min(O, hi, a))

\* faulty variant: the ends are excluded
betweenExclusive(O, low, hi, a) == IF leq(O, low, a) \/ geq(O, hi, a) THEN FALSE ELSE TRUE

\* between(O)(low, hi)(a) = ltO(low)(a) || gtO(hi)(a) ? false : true
between(O, low, hi, a) == IF lt(O, low, a) \/ gt(O, hi, a) THEN FALSE ELSE TRUE

\* The event loop is idle while the pure operations of Ord are applied.
NoLoop ==
    /\ heap = <<>>
    /\ prog = "ord"
    /\ promise = "none"
    /\ as = <<>>
    /\ noneAt = {}
    /\ dly = <<>>
    /\ pc = "done"
    /\ calls = <<>>
    /\ st = <<>>
    /\ due = <<>>
    /\ out = <<>>
    /\ now = 0
    /\ log = <<>>
    /\ acc = Pending
    /\ pos = 0
    /\ phase = "none"
    /\ result = Pending

\* the inputs of one application of fromCompare or tuple
CompareInit ==
    /\ NoLoop
    /\ \/ \E c \in RawCompares, a \in RawElems, b \in RawElems :
            pure = [op |-> "fromCompare", stage |-> "in", c |-> c, a |-> a, b |-> b]
       \/ \E n \in 0..MaxLen, same \in BOOLEAN :
            \E ords \in [1..n -> BaseOrds], a \in [1..n -> Values], b \in [1..n -> Values] :
              /\ same => a = b
              /\ pure = [op |-> "tuple", stage |-> "in", ords |-> ords, a |-> a, b |-> b,
                         same |-> same]

\* the ways an Ord instance is constructed
OrdKinds == {"boolean", "trivial", "tuple", "reverse", "combine"}

\* the inputs of one application of an operation on law-abiding Ords; a
\* tuple instance pairs an Ord over Elems with one over Values
OrdInit ==
    /\ NoLoop
    /\ \/ \E o1 \in LawfulOrds, o2 \in LawfulOrds, a \in Elems, b \in Elems :
            pure = [op |-> "ord", stage |-> "in", o1 |-> o1, o2 |-> o2, a |-> a, b |-> b]
       \/ \E fn \in [RawElems -> Elems], o \in LawfulOrds, a \in RawElems, b \in RawElems :
            pure = [op |-> "contramap", stage |-> "in", fn |-> fn, o |-> o, a |-> a, b |-> b]
       \/ \E kind \in OrdKinds, o1 \in LawfulOrds, o2 \in LawfulOrds \cup BaseOrds :
            /\ o2 \in BaseOrds <=> kind = "tuple"
            /\ pure = [op |-> "instance", stage |-> "in", kind |-> kind, o1 |-> o1, o2 |-> o2]
       \/ \E o \in LawfulOrds \cup {N_Ord} :
            \E low \in carrier(o), hi \in carrier(o), a \in carrier(o) :
              pure = [op |-> "range", stage |-> "in", o |-> o, low |-> low, hi |-> hi, a |-> a]

\* fromCompare(c).compare(b)(a)
ApplyFromCompare ==
    /\ pure.op = "fromCompare"
    /\ pure.stage = "in"
    /\ pure' = [pure EXCEPT !.stage = "out"] @@ [r |-> fromCompare(pure.c)[<<pure.b, pure.a>>]]
    /\ UNCHANGED loopVars

\* tuple(...ords).compare(b)(a)
ApplyTuple ==
    /\ pure.op = "tuple"
    /\ pure.stage = "in"
    /\ pure' = [pure EXCEPT !.stage = "out"] @@ [r |-> tupleCompare(pure.ords, pure.b, pure.a, pure.same)]
    /\ UNCHANGED loopVars

\* reverse(o1).compare(b)(a) and reverse(reverse(o1)).compare(b)(a)
ApplyReverse ==
    /\ pure.op = "ord"
    /\ pure.stage = "in"
    /\ pure' = [pure EXCEPT !.op = "reverse", !.stage = "out"] @@
                 [r |-> reverse(pure.o1)[<<pure.b, pure.a>>],
                  rr |-> reverse(reverse(pure.o1))[<<pure.b, pure.a>>]]
    /\ UNCHANGED loopVars

\* contramap(fn)(o): the derived Ord, and its compare(b)(a)
ApplyContramap ==
    /\ pure.op = "contramap"
    /\ pure.stage = "in"
    /\ pure' = [pure EXCEPT !.stage = "out"] @@
                 [derived |-> contramap(pure.fn, pure.o),
                  r |-> contramap(pure.fn, pure.o)[<<pure.b, pure.a>>]]
    /\ UNCHANGED loopVars

\* pipe(o1, getSemigroup().combine(o2)).compare(b)(a)
ApplyCombine ==
    /\ pure.op = "ord"
    /\ pure.stage = "in"
    /\ pure' = [pure EXCEPT !.op = "combine", !.stage = "out"] @@
                 [r |-> getSemigroup_combine(pure.o2, pure.o1)[<<pure.b, pure.a>>]]
    /\ UNCHANGED loopVars

\* empty.compare(b)(a), and o1 combined with empty on either side:
\* pipe(o1, combine(empty)) and pipe(empty, combine(o1))
ApplyEmpty ==
    /\ pure.op = "ord"
    /\ pure.stage = "in"
    /\ pure' = [pure EXCEPT !.op = "empty", !.stage = "out"] @@
                 [e |-> getMonoid_empty[<<pure.b, pure.a>>],
                  right |-> getSemigroup_combine(getMonoid_empty, pure.o1)[<<pure.b, pure.a>>],
                  left |-> getSemigroup_combine(pure.o1, getMonoid_empty)[<<pure.b, pure.a>>]]
    /\ UNCHANGED loopVars

\* the five predicates of o1 at (b)(a)
ApplyPredicates ==
    /\ pure.op = "ord"
    /\ pure.stage = "in"
    /\ pure' = [pure EXCEPT !.op = "predicates", !.stage = "out"] @@
                 [lt |-> lt(pure.o1, pure.b, pure.a),
                  equals |-> equals(pure.o1, pure.b, pure.a),
                  gt |-> gt(pure.o1, pure.b, pure.a),
                  leq |-> leq(pure.o1, pure.b, pure.a),
                  geq |-> geq(pure.o1, pure.b, pure.a)]
    /\ UNCHANGED loopVars

\* the instance of each kind, built from the Ords o1 and o2
instance(kind, o1, o2) ==
    CASE kind = "boolean" -> boolean_Ord
      [] kind = "trivial" -> trivial
      [] kind = "tuple" -> Ord_tuple(<<o1, o2>>)
      [] kind = "reverse" -> reverse(o1)
      [] kind = "combine" -> getSemigroup_combine(o2, o1)

\* an Ord instance is constructed
BuildInstance ==
    /\ pure.op = "instance"
    /\ pure.stage = "in"
    /\ pure' = [pure EXCEPT !.stage = "out"] @@
                 [inst |-> instance(pure.kind, pure.o1, pure.o2)]
    /\ UNCHANGED loopVars

CompareNext ==
    \/ ApplyFromCompare
    \/ ApplyTuple

SpecCompare == CompareInit /\ [][CompareNext]_vars

\* min(o)(hi)(a) and max(o)(hi)(a)
ApplyMinMax ==
    /\ pure.op = "range"
    /\ pure.stage = "in"
    /\ pure' = [pure EXCEPT !.op = "minmax", !.stage = "out"] @@
                 [mn |-> min(pure.o, pure.hi, pure.a), mx |-> max(pure.o, pure.hi, pure.a)]
    /\ UNCHANGED loopVars

\* clamp(o)(low, hi)(a)
ApplyClamp ==
    /\ pure.op = "range"
    /\ pure.stage = "in"
    /\ pure' = [pure EXCEPT !.op = "clamp", !.stage = "out"] @@
                 [r |-> clamp(pure.o, pure.low, pure.hi, pure.a)]
    /\ UNCHANGED loopVars

\* between(o)(low, hi)(a)
ApplyBetween ==
    /\ pure.op = "range"
    /\ pure.stage = "in"
    /\ pure' = [pure EXCEPT !.op = "between", !.stage = "out"] @@
                 [r |-> between(pure.o, pure.low, pure.hi, pure.a)]
    /\ UNCHANGED loopVars

OrdNext ==
    \/ ApplyReverse
    \/ ApplyContramap
    \/ ApplyCombine
    \/ ApplyEmpty
    \/ ApplyPredicates
    \/ BuildInstance
    \/ ApplyMinMax
    \/ ApplyClamp
    \/ ApplyBetween

SpecOrd == OrdInit /\ [][OrdNext]_vars

\* ---------------------------------------------------------------- Semigroup
\* faulty variant: the second operand is negated
SemigroupAll_concatNotSecond(b, a) == a /\ ~b

\* boolean.SemigroupAll.concat(second)(first), b being second and a first
SemigroupAll_concat(b, a) == a /\ b

\* faulty variant: implication in place of disjunction
SemigroupAny_concatImplies(b, a) == ~a \/ b

\* boolean.SemigroupAny.concat(second)(first)
SemigroupAny_concat(b, a) == a \/ b

\* MonoidAll.concat = SemigroupAll.concat, MonoidAny.concat = SemigroupAny.concat
MonoidAll_concat(b, a) == SemigroupAll_concat(b, a)
MonoidAny_concat(b, a) == SemigroupAny_concat(b, a)

\* the Semigroup instances of the source; the one of Ords names its
\* operation combine
BooleanSemigroups == {"SemigroupAll", "SemigroupAny", "MonoidAll", "MonoidAny"}
Semigroups == BooleanSemigroups \cup {"getSemigroup"}

\* S.concat(second)(first)
concat(S, b, a) ==
    CASE S = "SemigroupAll" -> SemigroupAll_concat(b, a)
      [] S = "SemigroupAny" -> SemigroupAny_concat(b, a)
      [] S = "MonoidAll" -> MonoidAll_concat(b, a)
      [] S = "MonoidAny" -> MonoidAny_concat(b, a)
      [] S = "getSemigroup" -> getSemigroup_combine(b, a)

\* pipe(a, S.concat(b), S.concat(c)) and pipe(a, S.concat(pipe(b, S.concat(c))))
pipeLeft(S, a, b, c) == concat(S, c, concat(S, b, a))
pipeRight(S, a, b, c) == concat(S, concat(S, c, b), a)

\* laws.semigroup.associativity(S, E)(a, b, c), E being the type's equality
associativity(S, a, b, c) == pipeLeft(S, a, b, c) = pipeRight(S, a, b, c)

\* three values of a Semigroup instance
SemigroupInit ==
    /\ NoLoop
    /\ \/ \E S \in BooleanSemigroups, a \in BOOLEAN, b \in BOOLEAN, c \in BOOLEAN :
            pure = [op |-> "semigroup", stage |-> "in", S |-> S, a |-> a, b |-> b, c |-> c]
       \/ \E a \in LawfulOrds, b \in LawfulOrds, c \in LawfulOrds :
            pure = [op |-> "semigroup", stage |-> "in", S |-> "getSemigroup", a |-> a, b |-> b, c |-> c]

\* the nested applications concat(concat(b)(a))(c) and concat(b)(concat(c)(a)),
\* and concat(c)(concat(b)(a)) and concat(concat(c)(b))(a)
ApplyNested ==
    /\ pure.op = "semigroup"
    /\ pure.stage = "in"
    /\ pure' = [pure EXCEPT !.op = "nested", !.stage = "out"] @@
                 [l |-> concat(pure.S, concat(pure.S, pure.b, pure.a), pure.c),
                  r |-> concat(pure.S, pure.b, concat(pure.S, pure.c, pure.a)),
                  al |-> concat(pure.S, pure.c, concat(pure.S, pure.b, pure.a)),
                  ar |-> concat(pure.S, concat(pure.S, pure.c, pure.b), pure.a)]
    /\ UNCHANGED loopVars

\* the law of the test harness, applied to a, b, c
ApplyAssociativity ==
    /\ pure.op = "semigroup"
    /\ pure.stage = "in"
    /\ pure' = [pure EXCEPT !.op = "associativity", !.stage = "out"] @@
                 [holds |-> associativity(pure.S, pure.a, pure.b, pure.c)]
    /\ UNCHANGED loopVars

SemigroupNext ==
    \/ ApplyNested
    \/ ApplyAssociativity

SpecSemigroup == SemigroupInit /\ [][SemigroupNext]_vars

\* ================================================================ claims
\* the set of values of a sequence
Range(q) == {q[k] : k \in 1..Len(q)}

\* C1: in the sequential TaskOption traversal, once the task at index i has
\* resolved to None, f is never invoked at an index above i, no task above i
\* is started or logs its effect, and the run resolves to None.
C1_SeqShortCircuit ==
    prog = "seq" =>
      \A i \in Indices :
        (st[i] = "resolved" /\ isNone(out[i])) =>
          /\ \A j \in Range(calls) : j <= i
          /\ \A j \in Range(log) : j <= i
          /\ \A j \in Indices : j > i => st[j] = "idle"
          /\ pc = "done" => result = none

\* C1 witness: [a0, a1, a2] with None at index 1 only: the run is over, it
\* resolved to None, and f was invoked at 0 and 1 only.
C1_Witness ==
    /\ prog = "seq"
    /\ Len(as) = 3
    /\ noneAt = {1}
    /\ pc = "done"
    /\ result = none
    /\ calls = <<0, 1>>
    /\ log = <<0, 1>>

\* C2: in the sequential TaskOption traversal f is invoked at 0, 1, 2, ... in
\* that order, each time with the element of that index; f(i + 1, ...) is
\* invoked only once the task of index i has resolved to a Some; and at most
\* one element task is in flight at any time.
C2_SeqOrder ==
    prog = "seq" =>
      /\ \A k \in 1..Len(calls) : calls[k] = k - 1
      /\ \A k \in 1..Len(calls) : out[k - 1] = f(k - 1, as[k])
      /\ \A k \in 2..Len(calls) : st[k - 2] = "resolved" /\ isSome(out[k - 2])
      /\ Cardinality({q \in Indices : st[q] = "pending"}) <= 1

\* C2 witness: a run over three elements, all Some, is over: f was invoked
\* at 0, 1, 2 and the effects happened in that order.
C2_Witness ==
    /\ prog = "seq"
    /\ pc = "done"
    /\ calls = <<0, 1, 2>>
    /\ log = <<0, 1, 2>>
    /\ isSome(result)

\* C3: in the parallel TaskOption traversal every f(i, ai) is invoked and its
\* task started by the time the run has begun, before any task resolves; the
\* run resolves only after every branch has executed its side effect, and to
\* None when some branch is None.
C3_ParAllStarted ==
    (prog = "par" /\ pc # "created" /\ isNonEmpty(as)) =>
      /\ calls = [k \in 1..Len(as) |-> k - 1]
      /\ \A q \in Indices : st[q] # "idle"
      /\ result # Pending => Range(log) = Indices
      /\ (pc = "done" /\ noneAt # {}) => result = none

\* C3 witness: three branches, the first is None, and the run is over: all
\* three effects were executed.
C3_Witness ==
    /\ prog = "par"
    /\ Len(as) = 3
    /\ noneAt = {0}
    /\ pc = "done"
    /\ result = none
    /\ Len(log) = 3

\* C4: the parallel TaskOption traversal resolves to Some of the values of
\* f(i, ai) in index order when no branch is None and to None otherwise,
\* whatever the order in which the branches completed.
C4_ParResult ==
    (prog = "par" /\ pc = "done" /\ isNonEmpty(as)) =>
      result = IF noneAt = {}
                 THEN some([k \in 1..Len(as) |-> fValue(k - 1, as[k])])
                 ELSE none

\* C4 witness: three branches, all Some, that completed in the order 2, 1, 0.
C4_Witness ==
    /\ prog = "par"
    /\ pc = "done"
    /\ noneAt = {}
    /\ log = <<2, 1, 0>>
    /\ isSome(result)
    /\ Len(result.value) = 3

\* C5: for the empty array the sequential and the parallel TaskOption
\* traversal and the IOOption traversal all resolve to Some of the empty
\* array, and f is never invoked.
C5_Empty ==
    (prog \in TraversalProgs /\ as = <<>> /\ pc = "done") =>
      /\ result = some(<<>>)
      /\ calls = <<>>
      /\ log = <<>>

\* C5 witness: the run of the parallel traversal of the empty array is over.
C5_Witness ==
    /\ prog = "par"
    /\ as = <<>>
    /\ pc = "done"
    /\ result = some(<<>>)

\* C6: the IOOption traversal stops at the first None: once f(i, ai) has
\* yielded None, f is invoked at no index above i and no later effect occurs.
C6_IOShortCircuit ==
    prog = "io" =>
      \A i \in Indices :
        (st[i] = "resolved" /\ isNone(out[i])) =>
          /\ \A j \in Range(calls) : j <= i
          /\ \A j \in Range(log) : j <= i
          /\ pc = "done" => result = none

\* C7 as stated: running ap(b)(map(tuple)(a)) starts both a and b before
\* either is awaited, and with a delayed and b immediate the log is b, a.
C7_ApParallel ==
    prog = "ap" =>
      /\ pc = "running" => \A q \in Indices : st[q] # "idle"
      /\ (pc = "done" /\ noneAt = {} /\ dly[0] = DelayMs /\ dly[1] = 0) => log = <<1, 0>>

\* C7 amended: TaskOption's ap is derived from flatMap and is sequential: b
\* is not started before a has resolved, and when both are Some the log is
\* a, b, also with a delayed and b immediate.
C7_ApSequential ==
    prog = "ap" =>
      /\ st[0] # "resolved" => st[1] = "idle"
      /\ (pc = "done" /\ noneAt = {}) =>
            /\ log = <<0, 1>>
            /\ result = some(<<as[1], as[2]>>)

\* C7 witness: a delayed by 100 ms, b immediate, both Some; the run is over
\* and the log is a, b.
C7_Witness ==
    /\ prog = "ap"
    /\ dly[0] = DelayMs
    /\ dly[1] = 0
    /\ noneAt = {}
    /\ pc = "done"
    /\ log = <<0, 1>>

\* C8: flatMap(f)(self) is sequential: until self has resolved, f is not
\* invoked and the second computation is neither built nor started; a then b
\* through flatMap logs a, b.
C8_FlatMapSequential ==
    prog = "flatMap" =>
      /\ st[0] # "resolved" => (calls = <<>> /\ st[1] = "idle" /\ out[1] = Pending)
      /\ (pc = "done" /\ noneAt = {}) => log = <<0, 1>>

\* C8 witness: a delayed by 100 ms, b immediate, both Some; the run is over
\* and the log is a, b.
C8_Witness ==
    /\ prog = "flatMap"
    /\ dly[0] = DelayMs
    /\ dly[1] = 0
    /\ noneAt = {}
    /\ pc = "done"
    /\ log = <<0, 1>>

\* C9: for TaskOption.flatMap and IOOption.chain, when the first computation
\* yields None the result is None and f is never invoked; when it yields
\* Some(a), f is invoked once, with a, and the result is the Option that
\* running f(a) yields.
C9_FlatMapOnInner ==
    (prog \in {"flatMap", "chain"} /\ pc = "done") =>
      IF 0 \in noneAt
        THEN /\ result = none
             /\ calls = <<>>
             /\ log = <<0>>
        ELSE /\ calls = <<as[1]>>
             /\ log = <<0, 1>>
             /\ result = IF 1 \in noneAt THEN none ELSE some(<<as[1], as[2]>>)

\* C9 witness: the first computation of a flatMap yielded None; the run is
\* over with None and f was not invoked.
C9_Witness ==
    /\ prog = "flatMap"
    /\ 0 \in noneAt
    /\ pc = "done"
    /\ result = none
    /\ calls = <<>>


\* C10: of and flatMap of TaskOption satisfy left identity, right identity
\* and associativity, comparing both the Option a run resolves to and the
\* sequence of effects it executes.
C10_MonadLaws ==
    pure.law \in {"left", "right", "assoc"} => pure.lhs = pure.rhs

\* C10 witness: associativity applied to m, f and g that all log their
\* effect and yield Some: both sides ran m, f, g in that order.
C10_Witness ==
    /\ pure.law = "assoc"
    /\ pure.lhs.eff = <<"m", "f", "g">>
    /\ isSome(pure.lhs.val)
    /\ pure.rhs.eff = <<"m", "f", "g">>

\* C11: running IOOption.ap(fa)(fab) executes the side effects of both fab
\* and fa, in that order, even when one of them yields None; the result is
\* None when either is None and Some(f(a)) when both are Some.
C11_IOApRunsBoth ==
    (prog = "ioAp" /\ pc = "done") =>
        /\ log = <<0, 1>>
        /\ (noneAt # {} => result = none)
        /\ (noneAt = {} => result = some(<<as[1], as[2]>>))

\* fab yields None, and the effect of fa has still been executed
C11_Witness ==
    /\ prog = "ioAp"
    /\ pc = "done"
    /\ noneAt = {0}
    /\ log = <<0, 1>>
    /\ result = none

\* C12: the task fromRejectable(f) never rejects: it resolves to Some(v) when
\* the promise f() fulfils with v and to None when f() rejects or throws, and
\* that None carries nothing of the reason.
C12_FromRejectable ==
    (prog = "fromRejectable" /\ pc = "done") =>
        /\ result.tag # "Rejected"
        /\ (promise = "fulfils" => result = some(as[1]))
        /\ (promise \in {"rejects", "throws"} => result = none)

\* f() has rejected with a reason after a delay and the run has resolved to None
C12_Witness ==
    /\ prog = "fromRejectable"
    /\ pc = "done"
    /\ promise = "rejects"
    /\ as = <<MaxVal>>
    /\ log = <<0>>
    /\ result = none

\* C13: for every raw comparator c and values a (first), b (second),
\* fromCompare(c).compare(b)(a) is Equal (0) when a and b are identical and is
\* exactly c(b)(a) when they are not, also when c considers them equal.
C13_FromCompare ==
    (pure.op = "fromCompare" /\ pure.stage = "out") =>
        pure.r = IF pure.a = pure.b THEN 0 ELSE pure.c[<<pure.b, pure.a>>]

\* two distinct values that c considers equal, c itself not being reflexive
C13_Witness ==
    /\ pure.op = "fromCompare"
    /\ pure.stage = "out"
    /\ pure.a # pure.b
    /\ pure.c[<<pure.b, pure.a>>] = 0
    /\ pure.c[<<pure.a, pure.a>>] = 1
    /\ pure.r = 0

\* C14: tuple(ord_1..ord_n).compare(b)(a), n >= 1, is lexicographic: the
\* comparison of the first components that do not tie, Equal when all tie;
\* for n = 1 it is the element's own comparison.  With three ascending
\* components, <<1,1,2>> against <<2,2,2>> and <<1,2,2>> is -1 and against
\* <<1,1,1>> is 1.
C14_TupleLexicographic ==
    (pure.op = "tuple" /\ pure.stage = "out" /\ Len(pure.ords) >= 1) =>
        LET n == Len(pure.ords)
            at(i) == pure.ords[i][<<pure.b[i], pure.a[i]>>]
            differ == {i \in 1..n : at(i) # 0}
        IN  /\ differ = {} => pure.r = 0
            /\ differ # {} => pure.r = at(CHOOSE i \in differ : \A j \in differ : i <= j)
            /\ n = 1 => pure.r = at(1)
            /\ (pure.ords = <<number_Ord, number_Ord, number_Ord>> /\ pure.a = <<1, 1, 2>>) =>
                 /\ pure.b = <<2, 2, 2>> => pure.r = -1
                 /\ pure.b = <<1, 2, 2>> => pure.r = -1
                 /\ pure.b = <<1, 1, 1>> => pure.r = 1

\* three components, the first two tie and the last decides
C14_Witness ==
    /\ pure.op = "tuple"
    /\ pure.stage = "out"
    /\ pure.ords = <<number_Ord, number_Ord, number_Ord>>
    /\ pure.a = <<1, 1, 2>>
    /\ pure.b = <<1, 1, 1>>
    /\ pure.r = 1

\* C15: for every Ord O and all a, b, reverse(O).compare(b)(a) equals
\* O.compare(a)(b): a non-Equal result of O has its sign flipped, Equal stays
\* Equal, and reverse(reverse(O)) compares like O.
C15_Reverse ==
    (pure.op = "reverse" /\ pure.stage = "out") =>
        /\ pure.r = pure.o1[<<pure.a, pure.b>>]
        /\ pure.r = 0 - pure.o1[<<pure.b, pure.a>>]
        /\ pure.rr = pure.o1[<<pure.b, pure.a>>]

\* O orders a before b, the reverse orders it after, the double reverse before
C15_Witness ==
    /\ pure.op = "reverse"
    /\ pure.stage = "out"
    /\ pure.o1[<<pure.b, pure.a>>] = -1
    /\ pure.r = 1
    /\ pure.rr = -1

\* an Ord that is Equal only for the same element
isLinear(O) == \A x \in carrier(O), y \in carrier(O) : O[<<y, x>>] = 0 => x = y
isInjective(fn) == \A x \in DOMAIN fn, y \in DOMAIN fn : fn[x] = fn[y] => x = y

\* C16 as stated: contramap(f)(O).compare(b2)(b1) equals
\* O.compare(f(b2))(f(b1)) for non-identical b1, b2, and the derived Ord is
\* Equal only for the same element if and only if f is injective.
C16_ContramapIffInjective ==
    (pure.op = "contramap" /\ pure.stage = "out") =>
        /\ pure.a # pure.b => pure.r = pure.o[<<pure.fn[pure.b], pure.fn[pure.a]>>]
        /\ isLinear(pure.derived) <=> isInjective(pure.fn)

\* C16, amended: contramap(f)(O).compare(b2)(b1) equals
\* O.compare(f(b2))(f(b1)) for non-identical b1, b2; the derived Ord is Equal
\* only for the same element exactly when f is injective and O is Equal only
\* for the same element on the image of f.  So a non-injective f never gives
\* such an order, and an injective f gives one when O itself is one.
C16_Contramap ==
    (pure.op = "contramap" /\ pure.stage = "out") =>
        /\ pure.a # pure.b => pure.r = pure.o[<<pure.fn[pure.b], pure.fn[pure.a]>>]
        /\ isLinear(pure.derived) <=>
             /\ isInjective(pure.fn)
             /\ \A x \in DOMAIN pure.fn, y \in DOMAIN pure.fn :
                  pure.o[<<pure.fn[y], pure.fn[x]>>] = 0 => pure.fn[x] = pure.fn[y]
        /\ isLinear(pure.derived) => isInjective(pure.fn)
        /\ (isInjective(pure.fn) /\ isLinear(pure.o)) => isLinear(pure.derived)

\* an injective f that is not the identity, on an O without ties: the derived
\* Ord has no ties either, and orders b1, b2 as O orders their images
C16_Witness ==
    /\ pure.op = "contramap"
    /\ pure.stage = "out"
    /\ isInjective(pure.fn)
    /\ pure.fn[pure.a] # pure.a
    /\ isLinear(pure.o)
    /\ isLinear(pure.derived)
    /\ pure.a # pure.b
    /\ pure.r = pure.o[<<pure.fn[pure.b], pure.fn[pure.a]>>]
    /\ pure.r # pure.o[<<pure.b, pure.a>>]

\* C17: pipe(ord1, getSemigroup().combine(ord2)).compare(a2)(a1) is
\* ord1.compare(a2)(a1) when that is not Equal and ord2.compare(a2)(a1)
\* otherwise: ord1 first, ord2 on ties only.
C17_Combine ==
    (pure.op = "combine" /\ pure.stage = "out") =>
        /\ pure.o1[<<pure.b, pure.a>>] # 0 => pure.r = pure.o1[<<pure.b, pure.a>>]
        /\ pure.o1[<<pure.b, pure.a>>] = 0 => pure.r = pure.o2[<<pure.b, pure.a>>]

\* ord1 and ord2 disagree on a pair and ord1 wins; they are not each other's tie
C17_Witness ==
    /\ pure.op = "combine"
    /\ pure.stage = "out"
    /\ pure.o1[<<pure.b, pure.a>>] = 1
    /\ pure.o2[<<pure.b, pure.a>>] = -1
    /\ pure.r = 1

\* C18: getMonoid().empty compares every pair as Equal and is a two-sided
\* identity of combine: combined with a law-abiding O on either side it
\* compares as O does.
C18_MonoidEmpty ==
    (pure.op = "empty" /\ pure.stage = "out") =>
        /\ pure.e = 0
        /\ pure.left = pure.o1[<<pure.b, pure.a>>]
        /\ pure.right = pure.o1[<<pure.b, pure.a>>]

\* O orders two distinct values, and so do both combinations with empty
C18_Witness ==
    /\ pure.op = "empty"
    /\ pure.stage = "out"
    /\ pure.a # pure.b
    /\ pure.o1[<<pure.b, pure.a>>] = -1
    /\ pure.e = 0
    /\ pure.left = -1
    /\ pure.right = -1

\* C19: for an Ord O and all a, b exactly one of lt, equals, gt holds at
\* (b)(a); leq is the negation of gt and geq the negation of lt.
C19_Predicates ==
    (pure.op = "predicates" /\ pure.stage = "out") =>
        /\ Cardinality({k \in {"lt", "equals", "gt"} : pure[k]}) = 1
        /\ pure.leq = ~pure.gt
        /\ pure.geq = ~pure.lt

\* two distinct values that O ties: equals holds, lt and gt do not
C19_Witness ==
    /\ pure.op = "predicates"
    /\ pure.stage = "out"
    /\ pure.a # pure.b
    /\ pure.equals
    /\ ~pure.lt
    /\ ~pure.gt
    /\ pure.leq
    /\ pure.geq

\* the laws of a total ordering, on the whole carrier of O
isReflexive(O) == \A x \in carrier(O) : O[<<x, x>>] = 0
isAntisymmetric(O) == \A x \in carrier(O), y \in carrier(O) : O[<<y, x>>] = 0 - O[<<x, y>>]
isTransitive(O) ==
    \A x \in carrier(O), y \in carrier(O), z \in carrier(O) :
        (O[<<y, x>>] <= 0 /\ O[<<z, y>>] <= 0) => O[<<z, x>>] <= 0
inOrdering(O) == \A p \in DOMAIN O : O[p] \in Ordering

\* C20: every constructed Ord instance satisfies the total-order laws:
\* boolean.Ord, trivial, and the Ords built by tuple, reverse and
\* getSemigroup().combine from law-abiding Ords are reflexive
\* (compare(a)(a) = 0), antisymmetric (compare(b)(a) = -compare(a)(b)) and
\* transitive, with results in {-1, 0, 1} only.
C20_OrdLaws ==
    (pure.op = "instance" /\ pure.stage = "out") =>
        /\ isReflexive(pure.inst)
        /\ isAntisymmetric(pure.inst)
        /\ isTransitive(pure.inst)
        /\ inOrdering(pure.inst)

\* a tuple Ord built from an Ord with ties and a descending one: it orders
\* some pairs of distinct tuples and ties others
C20_Witness ==
    /\ pure.op = "instance"
    /\ pure.stage = "out"
    /\ pure.kind = "tuple"
    /\ ~isLinear(pure.o1)
    /\ pure.o2 = reverse(number_Ord)
    /\ ~isLinear(pure.inst)
    /\ \E p \in DOMAIN pure.inst : pure.inst[p] = -1

\* C21: min(O)(second)(self) returns the lesser and max(O)(second)(self) the
\* greater of the two values (min(N.Ord)(6)(5) = 5, max(N.Ord)(6)(5) = 6);
\* when the two compare Equal both return self, the first argument, also
\* when the two are distinct values.
C21_MinMax ==
    (pure.op = "minmax" /\ pure.stage = "out") =>
        LET c == pure.o[<<pure.hi, pure.a>>]
        IN  /\ c = -1 => (pure.mn = pure.a /\ pure.mx = pure.hi)
            /\ c = 1 => (pure.mn = pure.hi /\ pure.mx = pure.a)
            /\ c = 0 => (pure.mn = pure.a /\ pure.mx = pure.a)
            /\ (pure.o = N_Ord /\ pure.hi = 6 /\ pure.a = 5) => (pure.mn = 5 /\ pure.mx = 6)

\* two distinct values that O ties: min and max both return self
C21_Witness ==
    /\ pure.op = "minmax"
    /\ pure.stage = "out"
    /\ pure.a # pure.hi
    /\ pure.o[<<pure.hi, pure.a>>] = 0
    /\ pure.mn = pure.a
    /\ pure.mx = pure.a

\* C22: clamp(O)(low, hi) with low <= hi maps a value above hi to hi, a value
\* below low to low, and leaves a value between them unchanged (low = 2,
\* hi = 4: 1 gives 2, 3 gives 3, 5 gives 4); the result lies in [low, hi].
C22_Clamp ==
    (pure.op = "clamp" /\ pure.stage = "out" /\ pure.o[<<pure.hi, pure.low>>] <= 0) =>
        /\ pure.o[<<pure.hi, pure.a>>] = 1 => pure.r = pure.hi
        /\ pure.o[<<pure.low, pure.a>>] = -1 => pure.r = pure.low
        /\ (pure.o[<<pure.hi, pure.a>>] <= 0 /\ pure.o[<<pure.low, pure.a>>] >= 0) => pure.r = pure.a
        /\ pure.o[<<pure.low, pure.r>>] >= 0
        /\ pure.o[<<pure.hi, pure.r>>] <= 0
        /\ (pure.o = N_Ord /\ pure.low = 2 /\ pure.hi = 4) =>
             /\ pure.a = 1 => pure.r = 2
             /\ pure.a = 3 => pure.r = 3
             /\ pure.a = 5 => pure.r = 4

\* the documented example, above the range: clamp(N.Ord)(2, 4)(5) = 4
C22_Witness ==
    /\ pure.op = "clamp"
    /\ pure.stage = "out"
    /\ pure.o = N_Ord
    /\ pure.low = 2
    /\ pure.hi = 4
    /\ pure.a = 5
    /\ pure.r = 4

\* C23: between(O)(low, hi)(a) is true exactly when low <= a and a <= hi
\* under O, both ends included: with low <= hi, between holds of low and of
\* hi (low = 2, hi = 4: false at 1, true at 3, false at 5).
C23_Between ==
    (pure.op = "between" /\ pure.stage = "out") =>
        /\ pure.r <=> (pure.o[<<pure.a, pure.low>>] <= 0 /\ pure.o[<<pure.hi, pure.a>>] <= 0)
        /\ (pure.o[<<pure.hi, pure.low>>] <= 0 /\ pure.a \in {pure.low, pure.hi}) => pure.r
        /\ (pure.o = N_Ord /\ pure.low = 2 /\ pure.hi = 4) =>
             /\ pure.a = 1 => ~pure.r
             /\ pure.a = 3 => pure.r
             /\ pure.a = 5 => ~pure.r

\* the upper end of a proper range is inside
C23_Witness ==
    /\ pure.op = "between"
    /\ pure.stage = "out"
    /\ pure.o[<<pure.hi, pure.low>>] = -1
    /\ pure.a = pure.hi
    /\ pure.r

\* C24 as stated: every Semigroup instance satisfies, for all a, b, c,
\* concat(concat(b)(a))(c) == concat(b)(concat(c)(a)) under the type's
\* equality.
C24_NestedAsStated ==
    (pure.op = "nested" /\ pure.stage = "out") => pure.l = pure.r

\* C24, amended: every Semigroup instance is associative: for all a, b, c,
\* concat(c)(concat(b)(a)) == concat(concat(c)(b))(a).  The equation as
\* stated also exchanges a and c: it holds for the boolean instances, which
\* are commutative.
C24_Associative ==
    (pure.op = "nested" /\ pure.stage = "out") =>
        /\ pure.al = pure.ar
        /\ pure.S \in BooleanSemigroups => pure.l = pure.r

\* three Ords for which the stated equation fails and associativity holds
C24_Witness ==
    /\ pure.op = "nested"
    /\ pure.stage = "out"
    /\ pure.S = "getSemigroup"
    /\ pure.l # pure.r
    /\ pure.al = pure.ar
    /\ pure.al # pure.a

reached == IF noneAt = {} THEN Indices
           ELSE 0..(CHOOSE k \in noneAt : \A j \in noneAt : k <= j)

\* C26: each run of the same sequential-traversal task invokes f anew, once
\* at every index the traversal reaches, and builds its own result array:
\* the array a run has returned holds that run's results in index order,
\* whatever the other run does before, meanwhile or afterwards; two runs
\* never return the same array; the Options f returned stay as returned.
C26_RerunFresh ==
    prog = "rerun" =>
      /\ \A r \in Runs :
           /\ pc[r] = "done" => calls[r] = [k \in 1..Cardinality(reached) |-> k - 1]
           /\ (pc[r] = "done" /\ isSome(result[r])) =>
                heap[result[r].value] = [k \in 1..Len(as) |-> fValue(k - 1, as[k])]
           /\ \A p \in Indices : st[r][p] # "idle" => out[r][p] = f(p, as[p + 1])
      /\ (isSome(result[1]) /\ isSome(result[2])) => result[1].value # result[2].value

\* the second run pushes onto its own array after the first run has returned
C26_Witness ==
    /\ prog = "rerun"
    /\ Len(as) = MaxLen
    /\ pc[1] = "done"
    /\ isSome(result[1])
    /\ pc[2] = "running"
    /\ isSome(acc[2])
    /\ Len(heap[acc[2].value]) = 2
    /\ Len(heap[result[1].value]) = MaxLen

\* C27: TaskOption values are lazy.  As long as the task built by a
\* traversal, by fromRejectable or by liftRejectable has not been run, the
\* function it was given has not been called, no task has been started and
\* no side effect has happened; a run calls the function at most once at each
\* index, and the function of a rejectable task exactly once.
C27_Lazy ==
    prog \in {"seq", "par"} \cup RejectableProgs =>
      /\ pc = "created" =>
           /\ calls = <<>>
           /\ log = <<>>
           /\ \A p \in Indices : st[p] = "idle"
      /\ \A i, j \in 1..Len(calls) : i # j => calls[i] # calls[j]
      /\ (prog \in RejectableProgs /\ pc # "created") => calls = <<0>>

\* the task of liftRejectable(g)(...a) has been run and awaits g's promise
C27_Witness ==
    /\ prog = "liftRejectable"
    /\ pc = "running"
    /\ calls = <<0>>
    /\ promise = "rejects"
    /\ st[0] = "pending"

\* what a traversal of as with f resolves to: Some of the values of all
\* f(i, ai) in index order, or None when some f(i, ai) resolves to None
traversed ==
    IF noneAt = {} THEN some([k \in 1..Len(as) |-> fValue(k - 1, as[k])]) ELSE none

\* C28: for the same array and the same f, a finished run of the sequential
\* traversal and a finished run of the parallel traversal hold the same
\* Option, the one determined by the array and f alone, the empty array
\* included; the indices f was called at and the order of the effects are
\* not part of it.
C28_SeqParSameResult ==
    (prog \in {"seq", "par"} /\ pc = "done") => result = traversed

\* a sequential run that stopped at the first None, having called f once: the
\* parallel run of the same input calls f at every index
C28_Witness ==
    /\ prog = "seq"
    /\ pc = "done"
    /\ Len(as) = MaxLen
    /\ noneAt = {0, 2}
    /\ calls = <<0>>
    /\ result = traversed

\* the parallel run of that input: f called at every index, effects in
\* order of completion, the same result
C28_WitnessPar ==
    /\ prog = "par"
    /\ pc = "done"
    /\ Len(as) = MaxLen
    /\ noneAt = {0, 2}
    /\ Len(calls) = MaxLen
    /\ log[1] # 0
    /\ result = traversed

\* C29: when every task of f resolves, a run of either traversal resolves.
\* The sequential run has then called f once at each index up to the first
\* None (k + 1 calls when that is index k), at every index when there is
\* none, and never more than n times; the parallel run resolves only once
\* all n branch tasks have resolved, a None among them or not.
C29_Terminates ==
    /\ [](prog = "seq" =>
            /\ Len(calls) <= Len(as)
            /\ pc = "done" => Len(calls) = Cardinality(reached))
    /\ []((prog = "par" /\ pc = "done") =>
            /\ Len(calls) = Len(as)
            /\ \A q \in Indices : st[q] = "resolved")
    /\ (prog \in {"seq", "par"}) ~> (pc = "done")

\* a parallel run whose first branch resolved to None first of all, and which
\* resolved after the other branches had resolved as well
C29_Witness ==
    /\ prog = "par"
    /\ pc = "done"
    /\ Len(as) = MaxLen
    /\ noneAt = {0}
    /\ log[1] = 0
    /\ Len(log) = MaxLen
    /\ result = none

\* C30: tuple(...ords).compare(b)(a) of two distinct arrays of length n
\* returns an Ordering for every n >= 0 and never throws; two distinct empty
\* arrays compare Equal under tuple().
C30_TupleTotal ==
    (pure.op = "tuple" /\ pure.stage = "out" /\ ~pure.same) =>
        /\ pure.r \in Ordering
        /\ pure.ords = <<>> => pure.r = 0

Next ==
    \/ \E p \in Indices : TaskResolve(p)
    \/ RunZip
    \/ RunSeq
    \/ SeqHead
    \/ SeqOuter
    \/ SeqInner
    \/ RunPar
    \/ ParCollect
    \/ RunIO
    \/ RunComp
    \/ CompCont
    \/ CompDone
    \/ RunChain
    \/ RunIOAp
    \/ RunRejectable
    \/ RejectableSettle

Spec == Init /\ [][Next]_vars
====
